---------------------------- MODULE Spec2Model ----------------------------
(***************************************************************************)
(* Model of tfx/components/trainer/rewriting: the rewriter contract        *)
(* (rewriter.py), the orchestrator perform_rewrite (rewriter.py), the test *)
(* rewriter MyRewriter (rewriter_test.py) and the TFLiteRewriter           *)
(* (tflite_rewriter.py) acting on a small filesystem.                      *)
(*                                                                         *)
(* Python values are modelled as strings: "True", "False", "None".         *)
(* A path is a sequence of name components; os.path.join is \o.            *)
(***************************************************************************)
EXTENDS Integers, Sequences, FiniteSets, TLC

VARIABLES
  pc,         \* pc[p]: position of invocation p inside perform_rewrite
  rewriter,   \* rewriter[p]: the rewriter instance passed to invocation p
  original,   \* original[p]: the original_model argument of invocation p
  target,     \* target[p]: the rewritten_model argument of invocation p
  calls,      \* calls[p]: the rewriter methods invoked so far, with arguments
  result,     \* result[p]: value returned by perform_rewrite ("None": not yet)
  fault,      \* fault[p]: the step of TFLiteRewriter.rewrite that failed
  log,        \* absl logging: the error records emitted so far (global)
  fs          \* the filesystem: existing path -> "dir" or a file's content

vars == <<pc, rewriter, original, target, calls, result, fault, log, fs>>

----------------------------------------------------------------------------
(* rewriter.py: ModelType and ModelDescription                             *)

ANY_MODEL == 1
SAVED_MODEL == 2
TFLITE_MODEL == 3

ModelType == {ANY_MODEL, SAVED_MODEL, TFLITE_MODEL}

ModelDescription(model_type, path) == [model_type |-> model_type, path |-> path]

\* Mutation: equality that looks at the first field only.
ModelEqTypeOnly(a, b) == a.model_type = b.model_type

\* a == b on two ModelDescription values: namedtuples compare as tuples,
\* element by element.
ModelEq(a, b) == <<a.model_type, a.path>> = <<b.model_type, b.path>>

\* str() of a ModelDescription: the namedtuple repr, field by field.
Str(model) ==
  <<"ModelDescription", <<"model_type", <<"ModelType", model.model_type>>>>,
    <<"path", model.path>>>>

\* Mutation: only the value False counts as a failure (`is False`).
PyNotIsFalse(v) == v = "False"

\* Python truth value negation, as used by `if not ...`.
PyNot(v) == v \in {"False", "None"}

----------------------------------------------------------------------------
(* Bounds and input universes                                              *)

SrcModelPath == <<"src">>
DstModelPath == <<"dst">>

\* A location inside the directory at SrcModelPath.
NestedModelPath == SrcModelPath \o <<"out">>

ModelPaths == {SrcModelPath, DstModelPath, NestedModelPath}

Models == {ModelDescription(t, p) : t \in ModelType, p \in ModelPaths}

Verdicts == {"True", "False"}


\* time.time() truncated to seconds: the clock values a call can observe.
MaxTime == 2
Times == 1..MaxTime

----------------------------------------------------------------------------
(* The filesystem seen through tf.io.gfile                                 *)

IsPrefix(a, b) == Len(a) <= Len(b) /\ SubSeq(b, 1, Len(a)) = a

exists(f, p) == p \in DOMAIN f

isdir(f, p) == p \in DOMAIN f /\ f[p] = "dir"

\* The paths of f at or below p.
Under(f, p) == {q \in DOMAIN f : IsPrefix(p, q)}

\* tf.io.gfile.makedirs: p and every missing ancestor become directories.
makedirs(f, p) ==
  LET new == {SubSeq(p, 1, n) : n \in 1..Len(p)}
  IN  [q \in DOMAIN f \cup new |-> IF q \in DOMAIN f THEN f[q] ELSE "dir"]

\* tf.io.gfile.mkdir: p becomes a directory (an existing one is kept).
mkdir(f, p) ==
  [q \in DOMAIN f \cup {p} |-> IF q \in DOMAIN f THEN f[q] ELSE "dir"]

\* tf.io.gfile.rmtree: p and everything below it disappear.
rmtree(f, p) == [q \in DOMAIN f \ Under(f, p) |-> f[q]]

\* GFile(p, 'wb').write(data): p becomes a file holding data.
write(f, p, data) ==
  [q \in DOMAIN f \cup {p} |-> IF q = p THEN data ELSE f[q]]

\* One pass of _copy_dir over the tree below src as it stands: every file
\* below src is copied (overwriting) and every sub-directory is created at
\* the same relative place below dst.
CopyPass(f, src, dst) ==
  LET below == Under(f, src) \ {src}
      Rel(q) == SubSeq(q, Len(src) + 1, Len(q))
      made == {dst \o Rel(q) : q \in below}
      From(d) == CHOOSE q \in below : dst \o Rel(q) = d
  IN  [d \in DOMAIN f \cup made |->
         IF d \in made
         THEN (IF f[From(d)] = "dir" /\ d \in DOMAIN f THEN f[d] ELSE f[From(d)])
         ELSE f[d]]

\* Deepest nesting of copies a filesystem accepts before it refuses a path.
MaxNest == 2

RECURSIVE CopyPasses(_, _, _, _)
CopyPasses(f, src, dst, n) ==
  IF n = 0 THEN f ELSE CopyPasses(CopyPass(f, src, dst), src, dst, n - 1)

\* _copy_dir(src, dst). tf.io.gfile.walk lists a directory when it enters
\* it, after the loop body has filled the directories above it. When dst
\* lies strictly below src the walk therefore meets its own copies and
\* descends until the filesystem refuses the path: the call raises.
\* Otherwise the walk is one pass.
CopyDirLoops(f, src, dst) ==
  IsPrefix(src, dst) /\ src # dst /\ isdir(f, dst) /\ isdir(f, src)

_copy_dir(f, src, dst) ==
  IF CopyDirLoops(f, src, dst)
  THEN [fs |-> CopyPasses(f, src, dst, MaxNest), exc |-> "OpError"]
  ELSE [fs |-> CopyPass(f, src, dst), exc |-> "none"]

----------------------------------------------------------------------------
(* What a rewriter method call produces: its return value, or the exception *)
(* that escapes it; the records it logs; the filesystem it leaves; and the  *)
(* internal step that failed, if one did.                                   *)

Outcome(ret, exc, logged, f, failed) ==
  [ret |-> ret, exc |-> exc, log |-> logged, fs |-> f, fault |-> failed]

Return(ret, logged, f) == Outcome(ret, "none", logged, f, "none")

Raise(exc, f, failed) == Outcome("None", exc, <<>>, f, failed)

----------------------------------------------------------------------------
(* rewriter_test.py: PerformRewriteTest.MyRewriter                         *)

MyRewriter(pre_rewrite_result, rewrite_result, post_rewrite_result, expected_original_model, expected_rewritten_model) ==
  [kind |-> "MyRewriter",
   name |-> "my_rewriter",
   pre_rewrite_result |-> pre_rewrite_result,
   rewrite_result |-> rewrite_result,
   post_rewrite_result |-> post_rewrite_result,
   expected_original_model |-> expected_original_model,
   expected_rewritten_model |-> expected_rewritten_model]

MyRewriter_pre_rewrite_validate(self, original_model, f) ==
  IF ~ModelEq(original_model, self.expected_original_model)
  THEN Raise("AssertionError", f, "none")
  ELSE Return(self.pre_rewrite_result, <<>>, f)

MyRewriter_rewrite(self, original_model, rewritten_model, f) ==
  IF \/ ~ModelEq(original_model, self.expected_original_model)
     \/ ~ModelEq(rewritten_model, self.expected_rewritten_model)
  THEN Raise("AssertionError", f, "none")
  ELSE Return(self.rewrite_result, <<>>, f)

MyRewriter_post_rewrite_validate(self, rewritten_model, f) ==
  IF ~ModelEq(rewritten_model, self.expected_rewritten_model)
  THEN Raise("AssertionError", f, "none")
  ELSE Return(self.post_rewrite_result, <<>>, f)

----------------------------------------------------------------------------
(* tflite_rewriter.py                                                      *)

EXTRA_ASSETS_DIRECTORY == "assets.extra"

\* tf.saved_model.ASSETS_DIRECTORY
ASSETS_DIRECTORY == "assets"

\* tf.saved_model.SAVED_MODEL_FILENAME_PB: what marks a directory as a
\* SavedModel that TFLiteConverter.from_saved_model can load.
SAVED_MODEL_FILENAME_PB == "saved_model.pb"

TFLiteRewriter(name, filename, copy_assets, copy_assets_extra) ==
  [kind |-> "TFLiteRewriter",
   name |-> name,
   filename |-> filename,
   copy_assets |-> copy_assets,
   copy_assets_extra |-> copy_assets_extra]

\* The steps of TFLiteRewriter.rewrite that the environment can make fail.
\* "convert" is converter.convert raising ValueError, "convert_other" is it
\* raising any other exception.
Faults ==
  {"none", "makedirs", "copy_model", "create_converter", "convert",
   "convert_other", "write", "rmtree", "copy_assets"}

\* Mutation: the assets directories are removed from the source model
\* instead of from its temporary copy.
_create_tflite_compatible_saved_model_InPlace(f, src, dst) ==
  LET copied == _copy_dir(f, src, dst)
      assets_path == src \o <<ASSETS_DIRECTORY>>
      f1 == IF exists(copied.fs, assets_path)
            THEN rmtree(copied.fs, assets_path) ELSE copied.fs
      assets_extra_path == src \o <<EXTRA_ASSETS_DIRECTORY>>
      f2 == IF exists(f1, assets_extra_path)
            THEN rmtree(f1, assets_extra_path) ELSE f1
  IN  IF copied.exc # "none" THEN copied ELSE [fs |-> f2, exc |-> "none"]

_create_tflite_compatible_saved_model(f, src, dst) ==
  LET copied == _copy_dir(f, src, dst)
      assets_path == dst \o <<ASSETS_DIRECTORY>>
      f1 == IF exists(copied.fs, assets_path)
            THEN rmtree(copied.fs, assets_path) ELSE copied.fs
      assets_extra_path == dst \o <<EXTRA_ASSETS_DIRECTORY>>
      f2 == IF exists(f1, assets_extra_path)
            THEN rmtree(f1, assets_extra_path) ELSE f1
  IN  IF copied.exc # "none" THEN copied ELSE [fs |-> f2, exc |-> "none"]

\* _create_tflite_converter: from_saved_model needs a SavedModel at the path.
_create_tflite_converter(f, saved_model_path) ==
  IF exists(f, saved_model_path \o <<SAVED_MODEL_FILENAME_PB>>)
  THEN [exc |-> "none", model |-> f[saved_model_path \o <<SAVED_MODEL_FILENAME_PB>>]]
  ELSE [exc |-> "IOError", model |-> "None"]

\* converter.convert(): the flatbuffer made from the loaded SavedModel.
convert(model) == "tflite(" \o model \o ")"

\* Mutation: pre-validation leaves a marker directory in the model it checks.
TFLiteRewriter_pre_rewrite_validate_Marks(self, original_model, f) ==
  IF original_model.model_type # SAVED_MODEL
  THEN Return("False", <<"Can only convert SavedModels.">>,
              makedirs(f, original_model.path \o <<"validated">>))
  ELSE Return("True", <<>>, makedirs(f, original_model.path \o <<"validated">>))

\* Mutation: the wildcard ANY_MODEL is accepted as an original.
TFLiteRewriter_pre_rewrite_validate_Wildcard(self, original_model, f) ==
  IF original_model.model_type \notin {SAVED_MODEL, ANY_MODEL}
  THEN Return("False", <<"Can only convert SavedModels.">>, f)
  ELSE Return("True", <<>>, f)

TFLiteRewriter_pre_rewrite_validate(self, original_model, f) ==
  IF original_model.model_type # SAVED_MODEL
  THEN Return("False", <<"Can only convert SavedModels.">>, f)
  ELSE Return("True", <<>>, f)

\* Mutation: post-validation insists on a target tagged TFLITE_MODEL.
TFLiteRewriter_post_rewrite_validate_Typed(self, rewritten_model, f) ==
  IF rewritten_model.model_type # TFLITE_MODEL
  THEN Return("False", <<>>, f)
  ELSE Return("True", <<>>, f)

TFLiteRewriter_post_rewrite_validate(self, rewritten_model, f) ==
  Return("True", <<>>, f)

\* The assets directories rewrite copies next to the output: (src, dst) pairs.
copy_pairs(self, original_model, rewritten_model, f) ==
  (IF self.copy_assets /\ isdir(f, original_model.path \o <<ASSETS_DIRECTORY>>)
   THEN <<[src |-> original_model.path \o <<ASSETS_DIRECTORY>>,
           dst |-> rewritten_model.path \o <<ASSETS_DIRECTORY>>]>>
   ELSE <<>>)
  \o
  (IF self.copy_assets_extra
      /\ isdir(f, original_model.path \o <<EXTRA_ASSETS_DIRECTORY>>)
   THEN <<[src |-> original_model.path \o <<EXTRA_ASSETS_DIRECTORY>>,
           dst |-> rewritten_model.path \o <<EXTRA_ASSETS_DIRECTORY>>]>>
   ELSE <<>>)

\* Lines 135-153 of rewrite: mkdir every destination, then copy every pair.
RECURSIVE MkdirAll(_, _)
MkdirAll(f, pairs) ==
  IF pairs = <<>> THEN f ELSE MkdirAll(mkdir(f, Head(pairs).dst), Tail(pairs))

RECURSIVE CopyAll(_, _)
CopyAll(f, pairs) ==
  IF pairs = <<>> THEN [fs |-> f, exc |-> "none"]
  ELSE LET c == _copy_dir(f, Head(pairs).src, Head(pairs).dst)
       IN  IF c.exc # "none" THEN c ELSE CopyAll(c.fs, Tail(pairs))

\* Mutation: the target's model type is not checked.
RewriteTargetAcceptedAlways(rewritten_model) == TRUE

\* Lines 107-109: the target types rewrite accepts.
RewriteTargetAccepted(rewritten_model) ==
  rewritten_model.model_type \in {TFLITE_MODEL, ANY_MODEL}

\* 'tmp-rewrite-' + str(int(time.time()))
TmpName(now) == "tmp-rewrite-" \o ToString(now)

\* TFLiteRewriter.rewrite at clock value `now`, with the environment making
\* step `inject` fail (when the call gets that far).
TFLiteRewriter_rewrite(self, original_model, rewritten_model, f, now, inject) ==
  IF ~RewriteTargetAccepted(rewritten_model)
  THEN Return("False", <<"Can only convert to the TFLite format.">>, f)
  ELSE
  LET tmp_model_dir == rewritten_model.path \o <<TmpName(now)>>
      f1 == makedirs(f, tmp_model_dir)
      compat == _create_tflite_compatible_saved_model(f1, original_model.path,
                                                      tmp_model_dir)
      f2 == compat.fs
      converter == _create_tflite_converter(f2, tmp_model_dir)
      output_path == rewritten_model.path \o <<self.filename>>
      f3 == write(f2, output_path, convert(converter.model))
      f4 == rmtree(f3, tmp_model_dir)
      pairs == copy_pairs(self, original_model, rewritten_model, f4)
      f5 == MkdirAll(f4, pairs)
      copied == CopyAll(f5, pairs)
  IN  IF inject = "makedirs" THEN Raise("OpError", f, "makedirs")
      ELSE IF inject = "copy_model" THEN Raise("OpError", f1, "copy_model")
      ELSE IF compat.exc # "none" THEN Raise(compat.exc, f2, "copy_model")
      ELSE IF inject = "create_converter"
           THEN Raise("IOError", f2, "create_converter")
      ELSE IF converter.exc # "none"
           THEN Raise(converter.exc, f2, "create_converter")
      ELSE IF inject = "convert"
           THEN Outcome("False", "none", <<"ValueError">>, f2, "convert")
      ELSE IF inject = "convert_other"
           THEN Raise("ConverterError", f2, "convert_other")
      ELSE IF inject = "write" \/ isdir(f2, output_path)
           THEN Raise("OpError", f2, "write")
      ELSE IF inject = "rmtree" THEN Raise("OpError", f3, "rmtree")
      ELSE IF inject = "copy_assets" /\ pairs # <<>>
           THEN Raise("OpError", f5, "copy_assets")
      ELSE IF copied.exc # "none" THEN Raise(copied.exc, copied.fs, "copy_assets")
      ELSE Return("True", <<>>, copied.fs)

----------------------------------------------------------------------------
(* Dispatch on the rewriter's class: the outcomes a method call can have.  *)

pre_rewrite_validate(self, original_model, f) ==
  IF self.kind = "MyRewriter"
  THEN {MyRewriter_pre_rewrite_validate(self, original_model, f)}
  ELSE {TFLiteRewriter_pre_rewrite_validate(self, original_model, f)}

rewrite(self, original_model, rewritten_model, f) ==
  IF self.kind = "MyRewriter"
  THEN {MyRewriter_rewrite(self, original_model, rewritten_model, f)}
  ELSE {TFLiteRewriter_rewrite(self, original_model, rewritten_model, f, now, inject) :
          now \in Times, inject \in Faults}

post_rewrite_validate(self, rewritten_model, f) ==
  IF self.kind = "MyRewriter"
  THEN {MyRewriter_post_rewrite_validate(self, rewritten_model, f)}
  ELSE {TFLiteRewriter_post_rewrite_validate(self, rewritten_model, f)}

----------------------------------------------------------------------------
(* rewriter.py: perform_rewrite(original_model, rewritten_model, rewriter) *)

\* Mutation: the rewriter is kept in one module-level slot that every
\* invocation reads.
RewriterShared(p) == rewriter[CHOOSE q \in DOMAIN rewriter : TRUE]

\* The rewriter invocation p works with: its own `rewriter` parameter.
Rewriter(p) == rewriter[p]

\* Mutation: rewrite is handed (rewritten_model, original_model).
RewriteArgsSwapped(original_model, rewritten_model) == <<rewritten_model, original_model>>

\* The arguments handed to each rewriter method.
PreRewriteValidateArgs(original_model, rewritten_model) == <<original_model>>

RewriteArgs(original_model, rewritten_model) == <<original_model, rewritten_model>>

PostRewriteValidateArgs(original_model, rewritten_model) == <<rewritten_model>>

\* Mutations: a test that lost its `not`, and a verdict that is ignored.
PreRewriteValidateFailedInverted(ret) == ~PyNot(ret)

RewriteFailedInverted(ret) == ~PyNot(ret)

PostRewriteValidateFailedIgnored(ret) == FALSE

\* The three `if not ...:` tests.
PreRewriteValidateFailed(ret) == PyNot(ret)

RewriteFailed(ret) == PyNot(ret)

PostRewriteValidateFailed(ret) == PyNot(ret)

\* Mutation: the post-validation message renders the original model.
PostRewriteValidateErrorMsgOriginal(name, original_model, rewritten_model) ==
  <<name, " failed to validate rewritten model. Rewritten model: ",
    Str(original_model)>>

\* The three error messages: '%s failed ... model: %s' % (name, str(model)).
PreRewriteValidateErrorMsg(name, original_model, rewritten_model) ==
  <<name, " failed to perform pre-rewrite validation. Original model: ",
    Str(original_model)>>

RewriteErrorMsg(name, original_model, rewritten_model) ==
  <<name, " failed to rewrite model. Original model: ", Str(original_model)>>

PostRewriteValidateErrorMsg(name, original_model, rewritten_model) ==
  <<name, " failed to validate rewritten model. Rewritten model: ",
    Str(rewritten_model)>>

\* Mutation: the failure is returned without being logged.
LogErrorDropped(channel, p, error_msg) == channel

\* logging.error(error_msg) inside perform_rewrite.
LogError(channel, p, error_msg) ==
  Append(channel, [proc |-> p, by |-> "perform_rewrite", msg |-> error_msg])

\* logging.error(...) inside a rewriter method called by invocation p.
RECURSIVE RewriterLog(_, _, _)
RewriterLog(channel, p, texts) ==
  IF texts = <<>> THEN channel
  ELSE RewriterLog(Append(channel, [proc |-> p, by |-> "rewriter",
                                    msg |-> <<Head(texts)>>]),
                   p, Tail(texts))

\* Mutations: a step of the protocol is left out.
AfterPreSkipsRewrite == "post"

AfterRewriteSkipsPost == "done"

\* Where perform_rewrite goes after a step that did not fail.
AfterPreRewriteValidate == "rewrite"

AfterRewrite == "post"

AfterPostRewriteValidate == "done"

\* The values perform_rewrite returns.
FailureResult == "False"

SuccessResult == "True"

\* One rewriter call of invocation p and the `if not` that follows it.
\* o is the call's outcome; failed tells whether `not o.ret` held.
Step(p, op, args, o, failed, error_msg, next) ==
  /\ calls' = [calls EXCEPT ![p] =
                 Append(@, [op |-> op, args |-> args, ret |-> o.ret, exc |-> o.exc])]
  /\ fs' = o.fs
  /\ fault' = [fault EXCEPT ![p] = IF o.fault # "none" THEN o.fault ELSE @]
  /\ IF o.exc # "none"
     THEN /\ pc' = [pc EXCEPT ![p] = "raised"]
          /\ log' = RewriterLog(log, p, o.log)
          /\ UNCHANGED result
     ELSE IF failed
     THEN /\ pc' = [pc EXCEPT ![p] = "done"]
          /\ log' = LogError(RewriterLog(log, p, o.log), p, error_msg)
          /\ result' = [result EXCEPT ![p] = FailureResult]
     ELSE /\ pc' = [pc EXCEPT ![p] = next]
          /\ log' = RewriterLog(log, p, o.log)
          /\ result' = [result EXCEPT ![p] =
                          IF next = "done" THEN SuccessResult ELSE @]
  /\ UNCHANGED <<rewriter, original, target>>

\* Lines 104-109.
PreRewriteValidate(p) ==
  /\ pc[p] = "pre"
  /\ LET args == PreRewriteValidateArgs(original[p], target[p])
     IN  \E o \in pre_rewrite_validate(Rewriter(p), args[1], fs) :
           Step(p, "pre_rewrite_validate", args, o,
                PreRewriteValidateFailed(o.ret),
                PreRewriteValidateErrorMsg(Rewriter(p).name, original[p], target[p]),
                AfterPreRewriteValidate)

\* Lines 111-115.
Rewrite(p) ==
  /\ pc[p] = "rewrite"
  /\ LET args == RewriteArgs(original[p], target[p])
     IN  \E o \in rewrite(Rewriter(p), args[1], args[2], fs) :
           Step(p, "rewrite", args, o,
                RewriteFailed(o.ret),
                RewriteErrorMsg(Rewriter(p).name, original[p], target[p]),
                AfterRewrite)

\* Lines 117-123.
PostRewriteValidate(p) ==
  /\ pc[p] = "post"
  /\ LET args == PostRewriteValidateArgs(original[p], target[p])
     IN  \E o \in post_rewrite_validate(Rewriter(p), args[1], fs) :
           Step(p, "post_rewrite_validate", args, o,
                PostRewriteValidateFailed(o.ret),
                PostRewriteValidateErrorMsg(Rewriter(p).name, original[p], target[p]),
                AfterPostRewriteValidate)

----------------------------------------------------------------------------
(* Initial states                                                          *)

FsOf(entries) ==
  [q \in {e[1] : e \in entries} |-> (CHOOSE e \in entries : e[1] = q)[2]]

SavedModelFiles ==
  {<<SrcModelPath, "dir">>,
   <<SrcModelPath \o <<SAVED_MODEL_FILENAME_PB>>, "pb">>}

AssetsFiles ==
  {<<SrcModelPath \o <<ASSETS_DIRECTORY>>, "dir">>,
   <<SrcModelPath \o <<ASSETS_DIRECTORY, "vocab.txt">>, "vocab">>}

AssetsExtraFiles ==
  {<<SrcModelPath \o <<EXTRA_ASSETS_DIRECTORY>>, "dir">>,
   <<SrcModelPath \o <<EXTRA_ASSETS_DIRECTORY, "warmup">>, "requests">>}

DstFiles == {<<DstModelPath, "dir">>}

\* A SavedModel at SrcModelPath, with or without assets directories; the
\* directory at DstModelPath may or may not exist yet.
InitialFilesystems ==
  {FsOf(SavedModelFiles \cup a \cup x \cup d) :
     a \in {{}, AssetsFiles}, x \in {{}, AssetsExtraFiles}, d \in {{}, DstFiles}}

\* The rewriters a caller may construct for (original, target).
Rewriters(o, t) ==
  {MyRewriter(a, b, c, o, t) : a \in Verdicts, b \in Verdicts, c \in Verdicts}
  \cup
  {TFLiteRewriter("tflite_rewriter", "tflite", ca, cx) :
     ca \in BOOLEAN, cx \in BOOLEAN}

InitCommon(procs) ==
  /\ pc = [p \in procs |-> "pre"]
  /\ calls = [p \in procs |-> <<>>]
  /\ result = [p \in procs |-> "None"]
  /\ fault = [p \in procs |-> "none"]
  /\ log = <<>>

\* One invocation, of any rewriter, on any of the initial filesystems.
Init ==
  /\ InitCommon({"a"})
  /\ \E o \in Models, t \in Models :
       /\ original = [p \in {"a"} |-> o]
       /\ target = [p \in {"a"} |-> t]
       /\ \E rw \in Rewriters(o, t) : rewriter = [p \in {"a"} |-> rw]
  /\ fs \in InitialFilesystems

Next ==
  \/ \E p \in DOMAIN pc : PreRewriteValidate(p)
  \/ \E p \in DOMAIN pc : Rewrite(p)
  \/ \E p \in DOMAIN pc : PostRewriteValidate(p)

Spec == Init /\ [][Next]_vars

\* Two invocations of perform_rewrite running concurrently, each with its
\* own MyRewriter instance and its own arguments; their steps interleave in
\* every order, the sequential orders included.
ConcModels ==
  {ModelDescription(SAVED_MODEL, SrcModelPath),
   ModelDescription(TFLITE_MODEL, DstModelPath)}

InitConc ==
  /\ InitCommon({"a", "b"})
  /\ original \in [{"a", "b"} -> ConcModels]
  /\ target \in [{"a", "b"} -> ConcModels]
  /\ \E v \in [{"a", "b"} -> Verdicts \X Verdicts \X Verdicts] :
       rewriter = [p \in {"a", "b"} |->
                     MyRewriter(v[p][1], v[p][2], v[p][3], original[p], target[p])]
  /\ fs = FsOf(SavedModelFiles \cup DstFiles)

SpecConc == InitConc /\ [][Next]_vars

\* What a rewriter method may return, booleans or not: True, False, None
\* (an unimplemented step, rewriter.py 60, 74, 87) and the truthy non-boolean 1.
PyValues == {"True", "False", "None", "1"}

\* One invocation with a MyRewriter whose methods return any of these values.
\* perform_rewrite is a synchronous call chain: once a method returns, the
\* next statement runs.
InitValues ==
  /\ InitCommon({"a"})
  /\ \E o \in Models, t \in Models :
       /\ original = [p \in {"a"} |-> o]
       /\ target = [p \in {"a"} |-> t]
       /\ \E a \in PyValues, b \in PyValues, c \in PyValues :
            rewriter = [p \in {"a"} |-> MyRewriter(a, b, c, o, t)]
  /\ fs = FsOf(SavedModelFiles \cup DstFiles)

SpecValues == InitValues /\ [][Next]_vars /\ WF_vars(Next)

----------------------------------------------------------------------------
(* Observations on a run, used to state the properties below.              *)

PRE == "pre_rewrite_validate"
REWRITE == "rewrite"
POST == "post_rewrite_validate"

Protocol == <<PRE, REWRITE, POST>>

\* The names of the rewriter methods invocation p has called, in order.
Ops(p) == [i \in 1..Len(calls[p]) |-> calls[p][i].op]

\* The values those calls returned, in order.
Rets(p) == [i \in 1..Len(calls[p]) |-> calls[p][i].ret]

Called(p, op) == \E i \in 1..Len(calls[p]) : calls[p][i].op = op

\* Invocation p called op and it returned v.
Returned(p, op, v) ==
  \E i \in 1..Len(calls[p]) :
    calls[p][i].op = op /\ calls[p][i].exc = "none" /\ calls[p][i].ret = v

IsMyRewriter(p, a, b, c) ==
  /\ rewriter[p].kind = "MyRewriter"
  /\ rewriter[p].pre_rewrite_result = a
  /\ rewriter[p].rewrite_result = b
  /\ rewriter[p].post_rewrite_result = c

Finished(p) == pc[p] = "done"

----------------------------------------------------------------------------
(* Properties of perform_rewrite                                           *)

\* C1: when pre_rewrite_validate returns false, whatever rewrite and
\* post_rewrite_validate would return, perform_rewrite has returned False
\* and neither rewrite nor post_rewrite_validate is ever invoked. Stated
\* for every rewriter on the value its call returned, and for MyRewriter
\* also on its configured verdict.
C1_PreFailureStops ==
  \A p \in DOMAIN pc :
    /\ Returned(p, PRE, "False") =>
         /\ Ops(p) = <<PRE>>
         /\ Finished(p) /\ result[p] = "False"
    /\ (\E b, c \in Verdicts : IsMyRewriter(p, "False", b, c)) =>
         /\ ~Called(p, REWRITE) /\ ~Called(p, POST)
         /\ pc[p] \in {"pre", "done"}
         /\ Finished(p) => Ops(p) = <<PRE>> /\ result[p] = "False"

\* A finished run of a rewriter whose pre_rewrite_validate returned false
\* while its rewrite and post_rewrite_validate would have returned true.
C1_Witness ==
  \E p \in DOMAIN pc :
    /\ IsMyRewriter(p, "False", "True", "True")
    /\ Finished(p) /\ Returned(p, PRE, "False")

\* C2: when pre_rewrite_validate returns true and rewrite returns false,
\* perform_rewrite has invoked exactly pre_rewrite_validate then rewrite,
\* never post_rewrite_validate, and has returned False.
C2_RewriteFailureStops ==
  \A p \in DOMAIN pc :
    /\ (Returned(p, PRE, "True") /\ Returned(p, REWRITE, "False")) =>
         /\ Ops(p) = <<PRE, REWRITE>>
         /\ Finished(p) /\ result[p] = "False"
    /\ (\E c \in Verdicts : IsMyRewriter(p, "True", "False", c)) =>
         /\ ~Called(p, POST)
         /\ pc[p] \in {"pre", "rewrite", "done"}
         /\ Finished(p) => Ops(p) = <<PRE, REWRITE>> /\ result[p] = "False"

\* A finished run whose rewrite returned false although its
\* post_rewrite_validate would have returned true.
C2_Witness ==
  \E p \in DOMAIN pc :
    /\ IsMyRewriter(p, "True", "False", "True")
    /\ Finished(p) /\ Returned(p, REWRITE, "False")

\* C3: when all three steps return true, perform_rewrite returns True
\* having invoked pre_rewrite_validate, rewrite and post_rewrite_validate
\* exactly once each, in that order. A finished run in which no call
\* returned anything but true is such a run.
C3_AllPassSucceeds ==
  \A p \in DOMAIN pc :
    /\ (Finished(p) /\ \A i \in 1..Len(calls[p]) : calls[p][i].ret = "True") =>
         /\ Ops(p) = Protocol
         /\ result[p] = "True"
    /\ IsMyRewriter(p, "True", "True", "True") =>
         /\ pc[p] # "raised"
         /\ Finished(p) => Ops(p) = Protocol /\ result[p] = "True"
    /\ result[p] = "True" => Rets(p) = <<"True", "True", "True">>

\* A finished all-pass run.
C3_Witness ==
  \E p \in DOMAIN pc :
    /\ IsMyRewriter(p, "True", "True", "True")
    /\ Finished(p) /\ result[p] = "True" /\ Ops(p) = Protocol

\* C4: with pre_rewrite_validate = true, rewrite = true and
\* post_rewrite_validate = false, perform_rewrite invokes all three steps
\* exactly once each and returns False.
C4_PostFailureSurfaces ==
  \A p \in DOMAIN pc :
    /\ Returned(p, POST, "False") =>
         /\ Ops(p) = Protocol
         /\ Rets(p) = <<"True", "True", "False">>
         /\ Finished(p) /\ result[p] = "False"
    /\ IsMyRewriter(p, "True", "True", "False") =>
         /\ pc[p] # "raised"
         /\ Finished(p) => Ops(p) = Protocol /\ result[p] = "False"

\* A finished run that failed in post_rewrite_validate.
C4_Witness ==
  \E p \in DOMAIN pc :
    /\ IsMyRewriter(p, "True", "True", "False")
    /\ Finished(p) /\ Returned(p, POST, "False")

\* C5: every rewriter call made by perform_rewrite(original, target,
\* rewriter) receives the caller's references: pre_rewrite_validate gets
\* original, rewrite gets (original, target), post_rewrite_validate gets
\* target; the two are never swapped or altered between steps.
C5_ArgumentFidelity ==
  \A p \in DOMAIN pc :
    \A i \in 1..Len(calls[p]) :
      /\ calls[p][i].op = PRE => calls[p][i].args = <<original[p]>>
      /\ calls[p][i].op = REWRITE => calls[p][i].args = <<original[p], target[p]>>
      /\ calls[p][i].op = POST => calls[p][i].args = <<target[p]>>
      /\ rewriter[p].kind = "MyRewriter" => calls[p][i].exc # "AssertionError"

\* A run that made all three calls with an original and a target that
\* differ in both fields, so that a swap would show.
C5_Witness ==
  \E p \in DOMAIN pc :
    /\ Ops(p) = Protocol
    /\ original[p].path # target[p].path
    /\ original[p].model_type # target[p].model_type

\* C6: the rewriter operations invoked by a run are a non-empty prefix of
\* <<pre_rewrite_validate, rewrite, post_rewrite_validate>>: nothing is
\* invoked twice, each operation is invoked only after the one before it
\* returned true, and on a failing run the last operation invoked is the
\* first and only one that returned false.
C6_SequentialShortCircuit ==
  \A p \in DOMAIN pc :
    /\ Len(calls[p]) <= Len(Protocol)
    /\ Ops(p) = SubSeq(Protocol, 1, Len(calls[p]))
    /\ pc[p] # "pre" => Len(calls[p]) >= 1
    /\ \A i \in 1..Len(calls[p]) :
         i < Len(calls[p]) => calls[p][i].exc = "none" /\ calls[p][i].ret = "True"
    /\ (Finished(p) /\ result[p] = "False") =>
         /\ calls[p][Len(calls[p])].ret = "False"
         /\ \A i \in 1..Len(calls[p]) :
              calls[p][i].ret = "False" => i = Len(calls[p])

\* A failing run stopped at its second operation: rewrite was invoked after
\* pre_rewrite_validate returned true and was the one that returned false.
C6_Witness ==
  \E p \in DOMAIN pc :
    /\ Finished(p) /\ result[p] = "False"
    /\ Rets(p) = <<"True", "False">>

\* The error records invocation p has put on the channel, by emitter.
ErrorsBy(p, by) ==
  Cardinality({i \in 1..Len(log) : log[i].proc = p /\ log[i].by = by})

Errors(p) == Cardinality({i \in 1..Len(log) : log[i].proc = p})

\* C7 as stated: the channel receives exactly one error message during a
\* run that returns false and none during a run that returns true, for any
\* rewriter, a TFLiteRewriter rejecting the model type included.
C7_OneErrorPerFailure ==
  \A p \in DOMAIN pc :
    /\ (Finished(p) /\ result[p] = "False") => Errors(p) = 1
    /\ (Finished(p) /\ result[p] = "True") => Errors(p) = 0

\* C7 as amended: perform_rewrite itself emits exactly one error message in
\* a run that returns false and none otherwise; the rewriter's methods add
\* their own: MyRewriter none, TFLiteRewriter one each time its
\* pre_rewrite_validate or rewrite returns false, so that a failing
\* TFLiteRewriter run puts exactly two messages on the channel. A run that
\* returns true puts none.
C7_OneOrchestratorErrorPerFailure ==
  \A p \in DOMAIN pc :
    /\ ErrorsBy(p, "perform_rewrite") =
         (IF Finished(p) /\ result[p] = "False" THEN 1 ELSE 0)
    /\ rewriter[p].kind = "MyRewriter" => ErrorsBy(p, "rewriter") = 0
    /\ (rewriter[p].kind = "TFLiteRewriter" /\ Finished(p) /\ result[p] = "False") =>
         Errors(p) = 2
    /\ (Finished(p) /\ result[p] = "True") => Errors(p) = 0

\* A TFLiteRewriter run that failed because rewrite rejected the target's
\* model type: the rewriter's message and the orchestrator's are both there.
C7_Witness ==
  \E p \in DOMAIN pc :
    /\ rewriter[p].kind = "TFLiteRewriter"
    /\ Finished(p) /\ result[p] = "False"
    /\ Ops(p) = <<PRE, REWRITE>>
    /\ target[p].model_type = SAVED_MODEL
    /\ ErrorsBy(p, "perform_rewrite") = 1 /\ ErrorsBy(p, "rewriter") = 1

\* The words by which a diagnostic identifies the step that failed.
StepPhrase(op) ==
  CASE op = PRE -> " failed to perform pre-rewrite validation. Original model: "
    [] op = REWRITE -> " failed to rewrite model. Original model: "
    [] op = POST -> " failed to validate rewritten model. Rewritten model: "

\* The model reference a diagnostic about step op must render.
RelevantModel(p, op) == IF op = POST THEN target[p] ELSE original[p]

\* C8: the diagnostic perform_rewrite emits on failure contains
\* rewriter.name, identifies the failing step, and contains the string
\* rendering of the original reference when the failing step is
\* pre_rewrite_validate or rewrite, and that of the target reference, not
\* the original, when it is post_rewrite_validate.
C8_DiagnosticContent ==
  \A p \in DOMAIN pc :
    /\ (Finished(p) /\ result[p] = "False") =>
         \E i \in 1..Len(log) :
           /\ log[i].proc = p /\ log[i].by = "perform_rewrite"
           /\ log[i].msg[1] = rewriter[p].name
           /\ log[i].msg[2] = StepPhrase(Ops(p)[Len(calls[p])])
           /\ log[i].msg[3] = Str(RelevantModel(p, Ops(p)[Len(calls[p])]))
    /\ \A i \in 1..Len(log) :
         (log[i].proc = p /\ log[i].by = "perform_rewrite") =>
           /\ Finished(p) /\ result[p] = "False"
           /\ log[i].msg[1] = rewriter[p].name
           /\ (Ops(p)[Len(calls[p])] = POST /\ original[p] # target[p]) =>
                log[i].msg[3] # Str(original[p])
           /\ (Ops(p)[Len(calls[p])] # POST /\ original[p] # target[p]) =>
                log[i].msg[3] # Str(target[p])

\* A run that failed in post_rewrite_validate with a target that differs
\* from the original, and whose diagnostic is on the channel.
C8_Witness ==
  \E p \in DOMAIN pc :
    /\ Finished(p) /\ result[p] = "False" /\ Ops(p) = Protocol
    /\ original[p] # target[p]
    /\ ErrorsBy(p, "perform_rewrite") = 1

\* C9 as stated: whichever underlying step of TFLiteRewriter.rewrite fails,
\* rewrite returns False and no exception escapes into perform_rewrite.
C9_FailuresReportedAsFalse ==
  \A p \in DOMAIN pc :
    (rewriter[p].kind = "TFLiteRewriter" /\ fault[p] # "none") =>
      /\ pc[p] # "raised"
      /\ Returned(p, REWRITE, "False")

\* What an invocation run alone produces, from its rewriter's verdicts.
AloneRets(rw) ==
  IF rw.pre_rewrite_result = "False" THEN <<"False">>
  ELSE IF rw.rewrite_result = "False" THEN <<"True", "False">>
  ELSE <<"True", "True", rw.post_rewrite_result>>

AloneOps(rw) == SubSeq(Protocol, 1, Len(AloneRets(rw)))

AloneResult(rw) ==
  IF <<rw.pre_rewrite_result, rw.rewrite_result, rw.post_rewrite_result>>
       = <<"True", "True", "True">>
  THEN "True" ELSE "False"

\* C10: perform_rewrite holds no state across calls. Of two invocations
\* with different rewriter instances, interleaved in any order, each makes
\* exactly the rewriter calls and returns exactly the result it would if
\* run alone, as its own rewriter's verdicts determine them, and logs only
\* its own failure.
C10_NoInterference ==
  \A p \in DOMAIN pc :
    /\ pc[p] # "raised"
    /\ Len(calls[p]) <= Len(AloneOps(rewriter[p]))
    /\ Ops(p) = SubSeq(AloneOps(rewriter[p]), 1, Len(calls[p]))
    /\ Rets(p) = SubSeq(AloneRets(rewriter[p]), 1, Len(calls[p]))
    /\ Finished(p) =>
         /\ Ops(p) = AloneOps(rewriter[p])
         /\ result[p] = AloneResult(rewriter[p])
         /\ Errors(p) = (IF AloneResult(rewriter[p]) = "False" THEN 1 ELSE 0)
    /\ ~Finished(p) => result[p] = "None" /\ Errors(p) = 0

\* Two invocations with different verdicts, interleaved: b ran to its
\* failure while a, which will succeed, was between rewrite and
\* post_rewrite_validate.
C10_Witness ==
  /\ DOMAIN pc = {"a", "b"}
  /\ IsMyRewriter("a", "True", "True", "True") /\ pc["a"] = "post"
  /\ IsMyRewriter("b", "True", "False", "True")
  /\ Finished("b") /\ result["b"] = "False" /\ Ops("b") = <<PRE, REWRITE>>

----------------------------------------------------------------------------
(* Properties of TFLiteRewriter and of the filesystem                      *)

\* The step being taken is invocation p calling rewriter method op.
CallStep(p, op) ==
  /\ Len(calls'[p]) = Len(calls[p]) + 1
  /\ calls'[p][Len(calls'[p])].op = op

\* C11: rewrite is the only step that writes. A step of perform_rewrite
\* that calls pre_rewrite_validate or post_rewrite_validate, the diagnostic
\* and the return that follow it included, leaves the filesystem and both
\* model references as they were; so a run that fails in pre-validation
\* leaves the filesystem exactly as it found it.
C11_OnlyRewriteWrites ==
  [][\A p \in DOMAIN pc :
       (CallStep(p, PRE) \/ CallStep(p, POST)) =>
         /\ fs' = fs
         /\ original' = original
         /\ target' = target]_vars

\* A TFLiteRewriter run that failed in pre-validation, on a filesystem that
\* holds a model with assets.
C11_Witness ==
  \E p \in DOMAIN pc :
    /\ rewriter[p].kind = "TFLiteRewriter"
    /\ Finished(p) /\ result[p] = "False" /\ Ops(p) = <<PRE>>
    /\ isdir(fs, SrcModelPath \o <<ASSETS_DIRECTORY>>)

\* C12 as stated: the TFLiteRewriter operations are deterministic given the
\* filesystem. Two calls of the same operation with equal arguments and
\* equal configuration, started from the same filesystem at possibly
\* different clock values, and meeting the same behaviour of the toolchain,
\* return the same boolean and leave identical filesystems.
C12_Deterministic ==
  \A p \in DOMAIN pc :
    (rewriter[p].kind = "TFLiteRewriter" /\ pc[p] = "rewrite") =>
      \A n1 \in Times, n2 \in Times, inject \in Faults :
        LET one == TFLiteRewriter_rewrite(rewriter[p], original[p], target[p],
                                          fs, n1, inject)
            two == TFLiteRewriter_rewrite(rewriter[p], original[p], target[p],
                                          fs, n2, inject)
        IN  (one.exc = "none" /\ two.exc = "none") =>
              one.ret = two.ret /\ one.fs = two.fs

\* The rewriter calls made so far, as (invocation, position) pairs.
CallIndex ==
  {x \in (DOMAIN pc) \X (1..Len(Protocol)) : x[2] <= Len(calls[x[1]])}

\* The ModelDescription values at hand: those a caller can construct, those
\* the invocations hold, those the rewriters were handed, and those a
\* MyRewriter was configured to expect.
ModelValues ==
  Models
  \cup {original[p] : p \in DOMAIN pc} \cup {target[p] : p \in DOMAIN pc}
  \cup UNION {{calls[x[1]][x[2]].args[k] : k \in 1..Len(calls[x[1]][x[2]].args)} :
                x \in CallIndex}
  \cup UNION {{rewriter[p].expected_original_model,
               rewriter[p].expected_rewritten_model} :
                p \in {q \in DOMAIN pc : rewriter[q].kind = "MyRewriter"}}

\* C13: two ModelDescription values are equal if and only if their
\* model_type fields are equal and their path fields are equal, wherever
\* each was constructed; so the references perform_rewrite hands on always
\* compare equal to the ones a MyRewriter was built to expect.
C13_StructuralEquality ==
  /\ \A a \in ModelValues, b \in ModelValues :
       ModelEq(a, b) <=> (a.model_type = b.model_type /\ a.path = b.path)
  /\ \A x \in CallIndex : calls[x[1]][x[2]].exc # "AssertionError"

\* A MyRewriter has compared, in all three methods, the references it was
\* handed with the ones it expects, for an original and a target that agree
\* in model_type and differ in path.
C13_Witness ==
  \E p \in DOMAIN pc :
    /\ rewriter[p].kind = "MyRewriter"
    /\ Ops(p) = Protocol
    /\ original[p].model_type = target[p].model_type
    /\ original[p].path # target[p].path

\* C14: TFLiteRewriter.pre_rewrite_validate(original) returns true if and
\* only if original.model_type is SAVED_MODEL: false for TFLITE_MODEL and
\* for the wildcard ANY_MODEL, whatever original.path is and whatever the
\* filesystem holds there.
C14_PreValidateSavedModelOnly ==
  \A p \in DOMAIN pc :
    rewriter[p].kind = "TFLiteRewriter" =>
      /\ \A i \in 1..Len(calls[p]) :
           calls[p][i].op = PRE =>
             /\ calls[p][i].exc = "none"
             /\ calls[p][i].ret =
                  (IF original[p].model_type = SAVED_MODEL THEN "True" ELSE "False")
      /\ \A m \in Models :
           TFLiteRewriter_pre_rewrite_validate(rewriter[p], m, fs).ret =
             (IF m.model_type = SAVED_MODEL THEN "True" ELSE "False")

\* A TFLiteRewriter has rejected an ANY_MODEL original.
C14_Witness ==
  \E p \in DOMAIN pc :
    /\ rewriter[p].kind = "TFLiteRewriter"
    /\ original[p].model_type = ANY_MODEL
    /\ Returned(p, PRE, "False")

\* C15: when target.model_type is neither TFLITE_MODEL nor ANY_MODEL,
\* TFLiteRewriter.rewrite returns false before any filesystem operation: the
\* step that calls it leaves the filesystem unchanged (no temporary
\* directory, no output file, no assets), and perform_rewrite returns False
\* without invoking post_rewrite_validate.
C15_UnsupportedTargetTouchesNothing ==
  [][\A p \in DOMAIN pc :
       (/\ rewriter[p].kind = "TFLiteRewriter"
        /\ target[p].model_type \notin {TFLITE_MODEL, ANY_MODEL}
        /\ CallStep(p, REWRITE)) =>
         /\ fs' = fs
         /\ calls'[p][Len(calls'[p])].exc = "none"
         /\ calls'[p][Len(calls'[p])].ret = "False"
         /\ pc'[p] = "done" /\ result'[p] = "False"
         /\ fault'[p] = "none"]_vars

\* A TFLiteRewriter run that ended at rewrite because the target is tagged
\* SAVED_MODEL, on a filesystem where the conversion would have had a model
\* with assets to work on.
C15_Witness ==
  \E p \in DOMAIN pc :
    /\ rewriter[p].kind = "TFLiteRewriter"
    /\ target[p].model_type = SAVED_MODEL
    /\ original[p].path = SrcModelPath /\ target[p].path = DstModelPath
    /\ Finished(p) /\ result[p] = "False" /\ Ops(p) = <<PRE, REWRITE>>
    /\ isdir(fs, SrcModelPath \o <<ASSETS_DIRECTORY>>)

\* C16: TFLiteRewriter.post_rewrite_validate returns true for every target
\* and every filesystem, so a perform_rewrite run driven by a TFLiteRewriter
\* never fails in post-validation: it returns True exactly when
\* pre_rewrite_validate and rewrite both returned true.
C16_PostValidateAlwaysTrue ==
  \A p \in DOMAIN pc :
    rewriter[p].kind = "TFLiteRewriter" =>
      /\ \A m \in Models :
           LET o == TFLiteRewriter_post_rewrite_validate(rewriter[p], m, fs)
           IN  o.ret = "True" /\ o.exc = "none"
      /\ ~Returned(p, POST, "False")
      /\ Called(p, POST) => Returned(p, POST, "True")
      /\ Finished(p) =>
           (result[p] = "True"
              <=> (Returned(p, PRE, "True") /\ Returned(p, REWRITE, "True")))

\* A TFLiteRewriter run that passed post-validation and returned True, for
\* a target tagged ANY_MODEL.
C16_Witness ==
  \E p \in DOMAIN pc :
    /\ rewriter[p].kind = "TFLiteRewriter"
    /\ target[p].model_type = ANY_MODEL
    /\ Finished(p) /\ result[p] = "True" /\ Ops(p) = Protocol

\* C17 as stated: whenever TFLiteRewriter.rewrite returns, with true or with
\* false, the temporary directory tmp-rewrite-<timestamp> it created under
\* target.path no longer exists.
C17_NoTemporaryDirectoryLeft ==
  \A p \in DOMAIN pc :
    (/\ rewriter[p].kind = "TFLiteRewriter"
     /\ \E i \in 1..Len(calls[p]) :
          calls[p][i].op = REWRITE /\ calls[p][i].exc = "none") =>
      \A now \in Times : ~exists(fs, target[p].path \o <<TmpName(now)>>)

\* Everything the filesystem f holds at or below path p.
Subtree(f, p) == [q \in Under(f, p) |-> f[q]]

\* One of the two paths is the other or lies inside it.
Overlap(a, b) == IsPrefix(a, b) \/ IsPrefix(b, a)

\* C18 as stated: TFLiteRewriter.rewrite never changes the original
\* artifact. After any rewrite call, successful or failed, every file and
\* directory under original.path is as before the call, for every choice of
\* target.path, target.path equal to or nested inside original.path included.
C18_OriginalUntouched ==
  [][\A p \in DOMAIN pc :
       (rewriter[p].kind = "TFLiteRewriter" /\ CallStep(p, REWRITE)) =>
         Subtree(fs', original[p].path) = Subtree(fs, original[p].path)]_vars

\* C18 as amended: the same, for every target.path that is neither equal to
\* nor inside original.path and does not contain it. (With target.path at
\* or inside original.path the temporary directory and the output are
\* created under original.path.)
C18_OriginalUntouchedWhenApart ==
  [][\A p \in DOMAIN pc :
       (/\ rewriter[p].kind = "TFLiteRewriter"
        /\ CallStep(p, REWRITE)
        /\ ~Overlap(original[p].path, target[p].path)) =>
         Subtree(fs', original[p].path) = Subtree(fs, original[p].path)]_vars

\* A successful rewrite from a model with both assets directories into a
\* separate target directory: the assets were copied next to the output and
\* are still in the original.
C18_Witness ==
  \E p \in DOMAIN pc :
    /\ rewriter[p].kind = "TFLiteRewriter"
    /\ Returned(p, REWRITE, "True")
    /\ original[p].path = SrcModelPath /\ target[p].path = DstModelPath
    /\ exists(fs, DstModelPath \o <<rewriter[p].filename>>)
    /\ exists(fs, DstModelPath \o <<ASSETS_DIRECTORY, "vocab.txt">>)
    /\ exists(fs, SrcModelPath \o <<ASSETS_DIRECTORY, "vocab.txt">>)
    /\ exists(fs, SrcModelPath \o <<EXTRA_ASSETS_DIRECTORY, "warmup">>)

\* Python's falsy values among PyValues.
IsFalsy(v) == v \in {"False", "None"}

\* C19, the state part: a run makes at most three rewriter calls, one per
\* stage; perform_rewrite returns nothing but True or False; a falsy return
\* value, None included, ends the run with False and a truthy one lets it
\* continue, so that True is returned exactly after three truthy values.
C19_BooleanResult ==
  \A p \in DOMAIN pc :
    /\ Len(calls[p]) <= Len(Protocol)
    /\ pc[p] # "raised"
    /\ result[p] \in {"None", "True", "False"}
    /\ Finished(p) <=> result[p] \in {"True", "False"}
    /\ \A i \in 1..Len(calls[p]) :
         /\ calls[p][i].exc = "none"
         /\ IsFalsy(calls[p][i].ret) =>
              i = Len(calls[p]) /\ Finished(p) /\ result[p] = "False"
    /\ result[p] = "False" => IsFalsy(calls[p][Len(calls[p])].ret)
    /\ result[p] = "True" =>
         /\ Len(calls[p]) = Len(Protocol)
         /\ \A i \in 1..Len(calls[p]) : ~IsFalsy(calls[p][i].ret)

\* C19: provided each rewriter method it invokes returns, every
\* perform_rewrite invocation terminates after at most three rewriter calls
\* and returns exactly True or False, also when a method returns a
\* non-boolean value: a falsy one such as None is that step's failure, a
\* truthy one its success.
C19_TerminatesWithBoolean ==
  /\ []C19_BooleanResult
  /\ <>(\A p \in DOMAIN pc : Finished(p) /\ result[p] \in {"True", "False"})

\* A run whose pre_rewrite_validate returned the truthy 1 and whose
\* post_rewrite_validate returned None: three calls, result False.
C19_Witness ==
  \E p \in DOMAIN pc :
    /\ Rets(p) = <<"1", "True", "None">>
    /\ Finished(p) /\ result[p] = "False"

====
